---- MODULE Spec2Model ----
(***************************************************************************)
(* The reactive Controller base of the headless state layer                *)
(* (buildController: subscribe / hasStateChanged / state): one Controller  *)
(* built over a Store that keeps an ordered list of update callbacks.      *)
(*                                                                         *)
(* One action is one synchronous call made by application code: a          *)
(* subscribe call, a Store update with its whole notification pass, a      *)
(* call of a returned unsubscribe function, a read of state.  The order    *)
(* of what happens inside one call is recorded in `trace`.                 *)
(*                                                                         *)
(* Two further components are modelled, each under a specification of its  *)
(* own: the atomic-commerce-interface element (its initialization and      *)
(* executeFirstSearch, InterfaceSpec) and the product-listing reducer      *)
(* (ListingSpec).                                                          *)
(***************************************************************************)
EXTENDS Integers, Sequences, FiniteSets, TLC

\* Largest value of the numeric field of the Store state.
MaxCount == 1
\* Number of subscribe calls made in one run.
MaxSubs == 2

\* Values of the second field of the derived state: the property is missing,
\* holds undefined, holds true, or holds an object that refers to itself.
Aux == {"absent", "undefined", "true", "cyclic"}

\* The Store's states.
StoreStates == [items : 0..MaxCount, aux : Aux]

VARIABLES
    store,         \* the Store's current state
    cbs,           \* the Store's registered callbacks, in registration order
    isSubscribed,  \* the Store's registrations whose unsubscribe has not run
    prevState,     \* the Controller's closure variable prevState
    subs,          \* history: one record per subscribe call, in call order
    op,            \* history: the last call made (kind; sub: the subscription
                   \* subscribed or unsubscribed, or the listener that threw in
                   \* an update; arg: the derived state an update committed)
    trace,         \* history: what the last call did, in order
    iface,         \* the atomic-commerce-interface element, with what its
                   \* engine was asked to do and the session storage item
    inits,         \* the promises of the initialize calls, in call order
    iop,           \* history: the last call made on the element
    listing,       \* the product-listing slice of the Store
    requests,      \* the fetch requests started, in order (id = index)
    lop            \* history: the last action the reducer handled

ctlVars == <<store, cbs, isSubscribed, prevState, subs, op, trace>>
uiVars == <<iface, inits, iop>>
plVars == <<listing, requests, lop>>
vars == <<store, cbs, isSubscribed, prevState, subs, op, trace,
          iface, inits, iop, listing, requests, lop>>

\* `let prevState: string;` holds undefined until subscribe assigns it.
Undefined == "undefined"

\* What JSON.stringify yields for a value it cannot serialize: a TypeError.
TypeError == "TypeError"

\* The derived state of the Controller: a projection of the Store's state.
State(st) == [count |-> st.items, aux |-> st.aux]

\* JSON.stringify of a derived state: a property holding undefined is left
\* out, a circular structure throws.
Stringify(d) ==
    CASE d.aux = "cyclic" -> TypeError
      [] d.aux = "true" -> "{\"count\":" \o ToString(d.count) \o ",\"aux\":true}"
      [] OTHER -> "{\"count\":" \o ToString(d.count) \o "}"

\* History only: the value of `seen` of a subscription that is not active,
\* and of `arg` of a call in which the Store commits no update.
NoState == [count |-> 0, aux |-> "none"]

Ev(kind, s) == [ev |-> kind, sub |-> s]

\* hasStateChanged comparing nothing: every update counts as a change.
hasStateChangedAlways(prev, currentState, s) ==
    LET stringifiedState == Stringify(currentState) IN
    IF stringifiedState = TypeError
    THEN [changed |-> TRUE, prev |-> prev, trace |-> <<Ev("warn", s)>>]
    ELSE [changed |-> TRUE,
          prev |-> stringifiedState,
          trace |-> <<Ev("setPrev", s)>>]

\* hasStateChanged failing closed: `return false` in the catch branch.
hasStateChangedFailClosed(prev, currentState, s) ==
    LET stringifiedState == Stringify(currentState) IN
    IF stringifiedState = TypeError
    THEN [changed |-> FALSE, prev |-> prev, trace |-> <<Ev("warn", s)>>]
    ELSE [changed |-> prev # stringifiedState,
          prev |-> stringifiedState,
          trace |-> <<Ev("setPrev", s)>>]

\* hasStateChanged(currentState) as run by the callback of subscription s,
\* with the closure's prevState passed in and handed back.
hasStateChanged(prev, currentState, s) ==
    LET stringifiedState == Stringify(currentState) IN
    IF stringifiedState = TypeError
    THEN [changed |-> TRUE, prev |-> prev, trace |-> <<Ev("warn", s)>>]
    ELSE [changed |-> prev # stringifiedState,
          prev |-> stringifiedState,
          trace |-> <<Ev("setPrev", s)>>]

\* The callback deleting the undefined properties of the state object in
\* place before it compares, the object being the Store's own.
CallbackNormalising(s, prev, st, throwers) ==
    LET clean == IF st.aux = "undefined" THEN [st EXCEPT !.aux = "absent"] ELSE st
        h == hasStateChanged(prev, State(clean), s)
    IN IF h.changed
       THEN [prev |-> h.prev, store |-> clean,
             trace |-> h.trace \o <<Ev("listener", s)>>
                       \o (IF s \in throwers THEN <<Ev("throw:listener", s)>> ELSE <<>>),
             threw |-> s \in throwers]
       ELSE [prev |-> h.prev, store |-> clean, trace |-> h.trace, threw |-> FALSE]

\* The callback catching what its listener throws (try/catch around
\* listener()).
CallbackCatching(s, prev, st, throwers) ==
    LET h == hasStateChanged(prev, State(st), s) IN
    IF h.changed
    THEN [prev |-> h.prev, store |-> st,
          trace |-> h.trace \o <<Ev("listener", s)>>,
          threw |-> FALSE]
    ELSE [prev |-> h.prev, store |-> st, trace |-> h.trace, threw |-> FALSE]

\* The callback comparing without assigning, invoking its listener and
\* assigning prevState only once the listener has returned.
CallbackListenerFirst(s, prev, st, throwers) ==
    LET h == hasStateChanged(prev, State(st), s) IN
    IF h.changed
    THEN IF s \in throwers
         THEN [prev |-> prev, store |-> st,
               trace |-> <<Ev("listener", s), Ev("throw:listener", s)>>,
               threw |-> TRUE]
         ELSE [prev |-> h.prev, store |-> st,
               trace |-> <<Ev("listener", s)>> \o h.trace,
               threw |-> FALSE]
    ELSE [prev |-> h.prev, store |-> st, trace |-> h.trace, threw |-> FALSE]

\* The callback subscribe hands to engine.subscribe, for subscription s, run
\* when the Store holds st.  throwers: the listeners that throw when invoked.
Callback(s, prev, st, throwers) ==
    LET h == hasStateChanged(prev, State(st), s) IN
    IF h.changed
    THEN [prev |-> h.prev, store |-> st,
          trace |-> h.trace \o <<Ev("listener", s)>>
                    \o (IF s \in throwers THEN <<Ev("throw:listener", s)>> ELSE <<>>),
          threw |-> s \in throwers]
    ELSE [prev |-> h.prev, store |-> st, trace |-> h.trace, threw |-> FALSE]

\* The Store's subscribe: the callback is added after those already there.
engineSubscribe(list, live, s) ==
    [cbs |-> Append(list, s), live |-> live \cup {s}]

\* The sequence without its element at index i.
RemoveAt(list, i) ==
    [j \in 1..(Len(list) - 1) |-> IF j < i THEN list[j] ELSE list[j + 1]]

\* The last index of s in the sequence, 0 when it is not there.
LastIndexOf(list, s) ==
    LET at == {i \in 1..Len(list) : list[i] = s} IN
    IF at = {} THEN 0 ELSE CHOOSE i \in at : \A j \in at : j <= i

\* The Store's unsubscribe without its called-already check: the callback is
\* looked up and spliced out, and a lookup that fails (-1) splices out the
\* last callback of the list.
engineUnsubscribeUnguarded(list, live, s) ==
    LET i == LastIndexOf(list, s) IN
    IF list = <<>>
    THEN [cbs |-> list, live |-> live \ {s}]
    ELSE [cbs |-> RemoveAt(list, IF i = 0 THEN Len(list) ELSE i), live |-> live \ {s}]

\* The function the Store's subscribe returned for s: it removes that
\* callback; called again, it does nothing.
engineUnsubscribe(list, live, s) ==
    IF s \notin live
    THEN [cbs |-> list, live |-> live]
    ELSE [cbs |-> RemoveAt(list, LastIndexOf(list, s)), live |-> live \ {s}]

\* The Store's notification pass over its callbacks, in registration order,
\* after an update.  A callback that throws ends the pass unless the Store
\* isolates its callbacks from each other (isolate).
RECURSIVE NotifyFrom(_, _, _, _, _, _, _)
NotifyFrom(list, i, prev, done, st, throwers, isolate) ==
    IF i > Len(list)
    THEN [prev |-> prev, store |-> st, trace |-> done]
    ELSE LET r == Callback(list[i], prev, st, throwers)
         IN NotifyFrom(list,
                       IF r.threw /\ ~isolate THEN Len(list) + 1 ELSE i + 1,
                       r.prev,
                       done \o r.trace,
                       r.store, throwers, isolate)

Notify(list, prev, st, throwers, isolate) ==
    NotifyFrom(list, 1, prev, <<>>, st, throwers, isolate)

\* History only: the `dispatch` of a listener that dispatches nothing.
NoStore == [items |-> 0, aux |-> "none"]

\* The first invocation of the listener of s by subscribe, the Store holding
\* st and the callbacks of list.  lb.dispatch: the state of a Store update
\* the listener makes (NoStore: none), its notification pass run within the
\* invocation; lb.throws: the listener then throws.
RunListener(s, prev, list, st, lb) ==
    LET pass == IF lb.dispatch = NoStore
                THEN [prev |-> prev, store |-> st, trace |-> <<>>]
                ELSE Notify(list, prev, lb.dispatch, {}, FALSE)
    IN [prev |-> pass.prev, store |-> pass.store, threw |-> lb.throws,
        trace |-> <<Ev("listener", s)>> \o pass.trace
                  \o (IF lb.throws THEN <<Ev("throw:listener", s)>> ELSE <<>>)]

\* subscribe returning a function that never reaches the Store's unsubscribe
\* (`return () => unsubscribe` for `return () => unsubscribe()`).
subscribeDropsUnsubscribe(s, prev, list, live, st, lb) ==
    LET l == RunListener(s, prev, list, st, lb)
        e == engineSubscribe(list, live, s)
        str == Stringify(State(l.store))
    IN IF l.threw
       THEN [prev |-> l.prev, cbs |-> list, live |-> live, store |-> l.store,
             returned |-> FALSE, unsub |-> 0, trace |-> l.trace]
       ELSE IF str = TypeError
       THEN [prev |-> l.prev, cbs |-> list, live |-> live, store |-> l.store,
             returned |-> FALSE, unsub |-> 0,
             trace |-> l.trace \o <<Ev("throw:stringify", s)>>]
       ELSE [prev |-> str, cbs |-> e.cbs, live |-> e.live, store |-> l.store,
             returned |-> TRUE, unsub |-> 0,
             trace |-> l.trace \o <<Ev("setPrev", s), Ev("register", s)>>]

\* subscribe with the callback registered before the listener's first
\* invocation (engine.subscribe moved to the top of the method).
subscribeRegisterFirst(s, prev, list, live, st, lb) ==
    LET e == engineSubscribe(list, live, s)
        l == RunListener(s, prev, e.cbs, st, lb)
        str == Stringify(State(l.store))
    IN IF l.threw
       THEN [prev |-> l.prev, cbs |-> e.cbs, live |-> e.live, store |-> l.store,
             returned |-> FALSE, unsub |-> 0,
             trace |-> <<Ev("register", s)>> \o l.trace]
       ELSE IF str = TypeError
       THEN [prev |-> l.prev, cbs |-> e.cbs, live |-> e.live, store |-> l.store,
             returned |-> FALSE, unsub |-> 0,
             trace |-> <<Ev("register", s)>> \o l.trace \o <<Ev("throw:stringify", s)>>]
       ELSE [prev |-> str, cbs |-> e.cbs, live |-> e.live, store |-> l.store,
             returned |-> TRUE, unsub |-> s,
             trace |-> <<Ev("register", s)>> \o l.trace \o <<Ev("setPrev", s)>>]

\* subscribe(listener) of the Controller, whose closure holds prev, as
\* subscription s, while the Store holds st: the listener is invoked,
\* prevState is assigned, the callback is registered with the Store.
\* lb: what the listener does.  returned: subscribe returned a function;
\* unsub: the Store registration that function removes.
subscribe(s, prev, list, live, st, lb) ==
    LET l == RunListener(s, prev, list, st, lb) IN
    IF l.threw
    THEN [prev |-> l.prev, cbs |-> list, live |-> live, store |-> l.store,
          returned |-> FALSE, unsub |-> 0, trace |-> l.trace]
    ELSE LET str == Stringify(State(l.store)) IN
         IF str = TypeError
         THEN [prev |-> l.prev, cbs |-> list, live |-> live, store |-> l.store,
               returned |-> FALSE, unsub |-> 0,
               trace |-> l.trace \o <<Ev("throw:stringify", s)>>]
         ELSE LET e == engineSubscribe(list, live, s) IN
              [prev |-> str, cbs |-> e.cbs, live |-> e.live, store |-> l.store,
               returned |-> TRUE, unsub |-> s,
               trace |-> l.trace \o <<Ev("setPrev", s), Ev("register", s)>>]

\* The events of kind `kind` about subscription s in a trace.
Count(tr, kind, s) == Cardinality({i \in 1..Len(tr) : tr[i] = Ev(kind, s)})

\* How many times the listener of s was invoked in a trace.
Invoked(tr, s) == Count(tr, "listener", s)

\* The subscriptions whose callback the Store holds.
Registered == {cbs[i] : i \in 1..Len(cbs)}

\* ---------------------------------------------------------------------
\* atomic-commerce-interface: initialize / initializeWithEngine /
\* executeFirstSearch.

\* Number of initialize / initializeWithEngine calls made in one run.
MaxInits == 2
\* Number of searches the engine is asked to execute in one run.
MaxSearches == 2

\* The element after construction: no engine, `initialized = false`,
\* nothing set up, nothing asked of the engine.
InterfaceInitialState ==
    [engine |-> FALSE, initialized |-> FALSE, error |-> FALSE,
     searchStatus |-> FALSE, urlManager |-> FALSE, context |-> FALSE,
     standaloneSearchBoxData |-> FALSE, searches |-> 0, queries |-> 0]

NoCall == [kind |-> "init", outcome |-> "none"]

\* commonInterfaceHelper.engineIsCreated(this.engine).
engineIsCreated(u) == u.engine

\* initEngine as passed by initialize (buildCommerceEngine, which may throw)
\* or by initializeWithEngine (this.engine = engine).
initEngine(u, withEngine, builds) ==
    IF withEngine \/ builds
    THEN [ui |-> [u EXCEPT !.engine = TRUE], threw |-> FALSE]
    ELSE [ui |-> [u EXCEPT !.error = TRUE], threw |-> TRUE]

\* commonInterfaceHelper.onInitialization(initEngine), up to its promise:
\* with an engine already there it warns and returns, else it runs
\* initEngine.
onInitialization(u, withEngine, builds) ==
    IF u.engine
    THEN [ui |-> u, threw |-> FALSE]
    ELSE initEngine(u, withEngine, builds)

initSearchStatus(u) == [u EXCEPT !.searchStatus = TRUE]
initUrlManager(u) == [u EXCEPT !.urlManager = TRUE]
initContext(u) == [u EXCEPT !.context = TRUE]

\* internalInitialization once the awaited promise has fulfilled.
internalInitializationResume(u) ==
    LET a == initSearchStatus(u)
        b == initUrlManager(a)
        c == initContext(b)
    IN [c EXCEPT !.initialized = TRUE]

\* executeFirstSearch without its `initialized` test.
executeFirstSearchUninitialized(u) ==
    IF ~engineIsCreated(u)
    THEN [ui |-> u, outcome |-> "noEngine"]
    ELSE IF ~u.standaloneSearchBoxData
    THEN [ui |-> [u EXCEPT !.searches = @ + 1], outcome |-> "search"]
    ELSE [ui |-> [u EXCEPT !.standaloneSearchBoxData = FALSE,
                           !.queries = @ + 1, !.searches = @ + 1],
          outcome |-> "queryAndSearch"]

\* executeFirstSearch.
executeFirstSearch(u) ==
    IF ~engineIsCreated(u)
    THEN [ui |-> u, outcome |-> "noEngine"]
    ELSE IF ~u.initialized
    THEN [ui |-> u, outcome |-> "notInitialized"]
    ELSE IF ~u.standaloneSearchBoxData
    THEN [ui |-> [u EXCEPT !.searches = @ + 1], outcome |-> "search"]
    ELSE [ui |-> [u EXCEPT !.standaloneSearchBoxData = FALSE,
                           !.queries = @ + 1, !.searches = @ + 1],
          outcome |-> "queryAndSearch"]

\* ---------------------------------------------------------------------
\* The product-listing reducer.

\* The slice before any action.
getProductListingInitialState ==
    [error |-> "null", isLoading |-> FALSE, requestId |-> 0,
     responseId |-> 0, facets |-> <<>>, products |-> <<>>]

\* Number of fetch requests started in one run.
MaxRequests == 2
\* Longest product list kept in the slice.
MaxProducts == 3
\* Most products in one response, most children of one response product.
MaxResponse == 2
MaxChildren == 1
\* Largest page number of a response.
MaxPage == 1

\* All sequences over S of length at most n.
SeqsUpTo(S, n) == UNION {[1..k -> S] : k \in 0..n}

\* Products as the API returns them: a child product carries no children
\* and its own name; totalNumberOfChildren counts the children returned.
Ids == {1, 2}
ChildProducts == [permanentid : Ids, ec_name : {"variant"}]
BaseProducts ==
    {[permanentid |-> i, ec_name |-> "base", children |-> c,
      totalNumberOfChildren |-> Len(c)] :
        i \in Ids, c \in SeqsUpTo(ChildProducts, MaxChildren)}

\* The payloads of request id: a response with its pagination; the
\* response id and the facets are the response's own.
Paginations == [page : 0..MaxPage, perPage : {1, 2}]
Payloads(id) ==
    {[present |-> TRUE,
      response |-> [products |-> ps, facets |-> <<id>>, responseId |-> id,
                    pagination |-> pg]] :
        ps \in SeqsUpTo(BaseProducts, MaxResponse), pg \in Paginations}
\* A fulfilled action without payload, and the payloads of a rejection.
NoPayload ==
    [present |-> FALSE,
     response |-> [products |-> <<>>, facets |-> <<>>, responseId |-> 0,
                   pagination |-> [page |-> 0, perPage |-> 0]]]
Errors == {Undefined, "error"}

NoAction == [kind |-> "init", id |-> 0, payload |-> NoPayload]

\* getPaginationOffset without the page size.
getPaginationOffsetPageOnly(payload) == payload.response.pagination.page

getPaginationOffset(payload) ==
    LET pagination == payload.response.pagination IN
    pagination.page * pagination.perPage

\* {...product, position}.
WithPosition(product, position) ==
    [permanentid |-> product.permanentid, ec_name |-> product.ec_name,
     children |-> product.children,
     totalNumberOfChildren |-> product.totalNumberOfChildren,
     position |-> position]

\* preprocessProduct prepending the parent whenever there are children.
preprocessProductAlwaysPrepend(product, position) ==
    LET restOfProduct == [permanentid |-> product.permanentid,
                          ec_name |-> product.ec_name]
    IN IF Len(product.children) = 0
       THEN WithPosition(product, position)
       ELSE WithPosition([product EXCEPT !.children = <<restOfProduct>> \o @],
                         position)

preprocessProduct(product, position) ==
    LET isParentAlreadyInChildren ==
            \E j \in 1..Len(product.children) :
                product.children[j].permanentid = product.permanentid
        restOfProduct == [permanentid |-> product.permanentid,
                          ec_name |-> product.ec_name]
    IN IF Len(product.children) = 0 \/ isParentAlreadyInChildren
       THEN WithPosition(product, position)
       ELSE WithPosition([product EXCEPT !.children = <<restOfProduct>> \o @],
                         position)

\* `error || null`.
handleError(state, error) ==
    [state EXCEPT !.error = IF error = Undefined THEN "null" ELSE error,
                  !.isLoading = FALSE]

handleFullfilled(state, response) ==
    [state EXCEPT !.error = "null",
                  !.facets = response.facets,
                  !.responseId = response.responseId,
                  !.isLoading = FALSE]

handlePending(state, requestId) ==
    [state EXCEPT !.isLoading = TRUE, !.requestId = requestId]

\* response.products.map((product, index) =>
\*     preprocessProduct(product, paginationOffset + index + 1)), index from 0.
MapProducts(products, paginationOffset) ==
    [j \in 1..Len(products) |->
        preprocessProduct(products[j], paginationOffset + (j - 1) + 1)]

\* The fetchProductListing.fulfilled case.
fetchProductListingFulfilled(state, payload) ==
    LET paginationOffset == getPaginationOffset(payload)
        handled == handleFullfilled(state, payload.response)
    IN [handled EXCEPT
          !.products = MapProducts(payload.response.products, paginationOffset)]

\* fetchMoreProducts.fulfilled replacing the stored products.
fetchMoreProductsReplacing(state, payload) ==
    IF ~payload.present
    THEN state
    ELSE [handleFullfilled(state, payload.response) EXCEPT
            !.products = MapProducts(payload.response.products,
                                     getPaginationOffset(payload))]

\* The fetchMoreProducts.fulfilled case.
fetchMoreProductsFulfilled(state, payload) ==
    IF ~payload.present
    THEN state
    ELSE LET paginationOffset == getPaginationOffset(payload)
             handled == handleFullfilled(state, payload.response)
         IN [handled EXCEPT
               !.products = state.products
                            \o MapProducts(payload.response.products, paginationOffset)]

\* Smallest member of a non-empty set of numbers.
Min(S) == CHOOSE x \in S : \A y \in S : x <= y

\* The children of a product that carry the given permanentid.
ChildMatches(product, permanentid) ==
    {j \in 1..Len(product.children) :
        product.children[j].permanentid = permanentid}

\* The promoteChildToParent case keeping the parent's own fields.
promoteChildToParentKeepFields(state, child) ==
    state

\* The promoteChildToParent case: findIndex stops at the first product one
\* of whose children carries the id, find at the first such child.
promoteChildToParent(state, child) ==
    LET products == state.products
        found == {i \in 1..Len(products) :
                     ChildMatches(products[i], child.permanentid) # {}}
    IN IF found = {}
       THEN state
       ELSE LET currentParentIndex == Min(found)
                parent == products[currentParentIndex]
                childToPromote ==
                    parent.children[Min(ChildMatches(parent, child.permanentid))]
                newParent ==
                    [permanentid |-> childToPromote.permanentid,
                     ec_name |-> childToPromote.ec_name,
                     children |-> parent.children,
                     totalNumberOfChildren |-> parent.totalNumberOfChildren,
                     position |-> parent.position]
            IN [state EXCEPT !.products[currentParentIndex] = newParent]

\* ---------------------------------------------------------------------
\* The components at rest, as constructed.
ControllerAtRest ==
    /\ store = [items |-> 0, aux |-> "absent"]
    /\ cbs = <<>>
    /\ isSubscribed = {}
    /\ prevState = Undefined
    /\ subs = <<>>
    /\ op = [kind |-> "init", sub |-> 0, arg |-> NoState]
    /\ trace = <<>>

InterfaceAtRest ==
    /\ iface = InterfaceInitialState
    /\ inits = <<>>
    /\ iop = NoCall

ListingAtRest ==
    /\ listing = getProductListingInitialState
    /\ requests = <<>>
    /\ lop = NoAction

Init ==
    /\ InterfaceAtRest
    /\ ListingAtRest
    /\ store \in StoreStates
    /\ cbs = <<>>
    /\ isSubscribed = {}
    /\ prevState = Undefined
    /\ subs = <<>>
    /\ op = [kind |-> "init", sub |-> 0, arg |-> NoState]
    /\ trace = <<>>

\* What a listener may do in its first invocation: return, throw, or
\* dispatch a Store update and return.
ListenerBehaviours ==
    {[throws |-> b, dispatch |-> NoStore] : b \in BOOLEAN}
    \cup {[throws |-> FALSE, dispatch |-> n] : n \in StoreStates}

\* Application code calls subscribe(listener).
Subscribe ==
    /\ Len(subs) < MaxSubs
    /\ \E lb \in ListenerBehaviours :
         LET s == Len(subs) + 1
             r == subscribe(s, prevState, cbs, isSubscribed, store, lb)
             old == [t \in 1..Len(subs) |->
                       IF Invoked(r.trace, t) > 0
                       THEN [subs[t] EXCEPT !.seen = State(r.store)]
                       ELSE subs[t]]
         IN /\ prevState' = r.prev
            /\ cbs' = r.cbs
            /\ isSubscribed' = r.live
            /\ store' = r.store
            /\ subs' = Append(old, [status |-> IF r.returned THEN "active" ELSE "failed",
                                     unsub |-> r.unsub,
                                     seen |-> IF r.returned THEN State(r.store) ELSE NoState])
            /\ op' = [kind |-> "subscribe", sub |-> s,
                      arg |-> IF lb.dispatch = NoStore THEN NoState ELSE State(lb.dispatch)]
            /\ trace' = r.trace
            /\ UNCHANGED <<uiVars, plVars>>

\* The subscriptions whose listener an update to n invokes when none throws.
Notified(n) ==
    LET r == Notify(cbs, prevState, n, {}, FALSE) IN
    {s \in Registered : Invoked(r.trace, s) > 0}

\* The Store commits an update to state n and notifies its callbacks.  At
\* most one listener throws in a pass (one that is not invoked cannot).
Update(n) ==
    \E throwers \in {{}} \cup {{s} : s \in Notified(n)} :
    \E isolate \in (IF throwers = {} THEN {FALSE} ELSE BOOLEAN) :
        LET r == Notify(cbs, prevState, n, throwers, isolate) IN
        /\ store' = r.store
        /\ prevState' = r.prev
        /\ subs' = [s \in 1..Len(subs) |->
                       IF Invoked(r.trace, s) > 0
                       THEN [subs[s] EXCEPT !.seen = State(n)]
                       ELSE subs[s]]
        /\ op' = [kind |-> "update",
                  sub |-> IF throwers = {} THEN 0 ELSE CHOOSE s \in throwers : TRUE,
                  arg |-> State(n)]
        /\ trace' = r.trace
        /\ UNCHANGED <<cbs, isSubscribed, uiVars, plVars>>

\* Application code calls the function subscribe returned for s.
Unsubscribe(s) ==
    /\ subs[s].status \in {"active", "unsubscribed"}
    /\ LET e == engineUnsubscribe(cbs, isSubscribed, subs[s].unsub) IN
         /\ cbs' = e.cbs
         /\ isSubscribed' = e.live
         /\ trace' = IF e.cbs # cbs THEN <<Ev("remove", s)>> ELSE <<>>
    /\ subs' = [subs EXCEPT ![s].status = "unsubscribed", ![s].seen = NoState]
    /\ op' = [kind |-> "unsubscribe", sub |-> s, arg |-> NoState]
    /\ UNCHANGED <<store, prevState, uiVars, plVars>>

\* Application code reads the state property.
ReadState ==
    /\ op' = [kind |-> "read", sub |-> 0, arg |-> NoState]
    /\ trace' = <<>>
    /\ UNCHANGED <<store, cbs, isSubscribed, prevState, subs, uiVars, plVars>>

Next ==
    \/ Subscribe
    \/ \E n \in StoreStates : Update(n)
    \/ \E s \in 1..Len(subs) : Unsubscribe(s)
    \/ ReadState

Spec == Init /\ [][Next]_vars

\* ---------------------------------------------------------------------
\* Calls on the atomic-commerce-interface element.

\* initialize(options) or initializeWithEngine(engine), up to the await in
\* internalInitialization; a throw of initEngine rejects the promise there.
Initialize(withEngine, builds) ==
    /\ Len(inits) < MaxInits
    /\ LET r == onInitialization(iface, withEngine, builds) IN
         /\ iface' = r.ui
         /\ inits' = Append(inits, IF r.threw THEN "rejected" ELSE "awaiting")
    /\ iop' = [kind |-> IF withEngine THEN "initializeWithEngine" ELSE "initialize",
               outcome |-> "none"]
    /\ UNCHANGED <<ctlVars, plVars>>

\* The awaited promise of call i fulfils: the rest of internalInitialization
\* runs and the call's own promise fulfils.
ResumeInitialization(i) ==
    /\ inits[i] = "awaiting"
    /\ iface' = internalInitializationResume(iface)
    /\ inits' = [inits EXCEPT ![i] = "fulfilled"]
    /\ iop' = [kind |-> "resume", outcome |-> "none"]
    /\ UNCHANGED <<ctlVars, plVars>>

\* Application code calls executeFirstSearch.
ExecuteFirstSearch ==
    /\ iface.searches < MaxSearches
    /\ LET r == executeFirstSearch(iface) IN
         /\ iface' = r.ui
         /\ iop' = [kind |-> "executeFirstSearch", outcome |-> r.outcome]
    /\ UNCHANGED <<inits, ctlVars, plVars>>

\* A standalone search box stores its data before redirecting here.
StoreStandaloneSearchBoxData ==
    /\ ~iface.standaloneSearchBoxData
    /\ iface' = [iface EXCEPT !.standaloneSearchBoxData = TRUE]
    /\ iop' = [kind |-> "store", outcome |-> "none"]
    /\ UNCHANGED <<inits, ctlVars, plVars>>

InterfaceInit == ControllerAtRest /\ InterfaceAtRest /\ ListingAtRest

InterfaceNext ==
    \/ \E withEngine \in BOOLEAN : \E builds \in BOOLEAN : Initialize(withEngine, builds)
    \/ \E i \in 1..Len(inits) : ResumeInitialization(i)
    \/ ExecuteFirstSearch
    \/ StoreStandaloneSearchBoxData

InterfaceSpec == InterfaceInit /\ [][InterfaceNext]_vars

\* ---------------------------------------------------------------------
\* Actions dispatched to the product-listing reducer.

Pending(i) == requests[i].status = "pending"

\* fetchProductListing.pending / fetchMoreProducts.pending: a request starts.
FetchPending(kind) ==
    /\ Len(requests) < MaxRequests
    /\ LET id == Len(requests) + 1 IN
         /\ requests' = Append(requests, [kind |-> kind, status |-> "pending"])
         /\ listing' = handlePending(listing, id)
         /\ lop' = [kind |-> "pending", id |-> id, payload |-> NoPayload]
    /\ UNCHANGED <<ctlVars, uiVars>>

\* fetchProductListing.fulfilled.
FetchProductListingFulfilled(i) ==
    /\ Pending(i) /\ requests[i].kind = "fetchProductListing"
    /\ \E payload \in Payloads(i) :
         /\ listing' = fetchProductListingFulfilled(listing, payload)
         /\ lop' = [kind |-> "fetchProductListing.fulfilled", id |-> i,
                    payload |-> payload]
    /\ requests' = [requests EXCEPT ![i].status = "fulfilled"]
    /\ UNCHANGED <<ctlVars, uiVars>>

\* fetchMoreProducts.fulfilled, with or without payload.
FetchMoreProductsFulfilled(i) ==
    /\ Pending(i) /\ requests[i].kind = "fetchMoreProducts"
    /\ \E payload \in Payloads(i) \cup {NoPayload} :
         /\ payload.present
              => Len(listing.products) + Len(payload.response.products) <= MaxProducts
         /\ listing' = fetchMoreProductsFulfilled(listing, payload)
         /\ lop' = [kind |-> "fetchMoreProducts.fulfilled", id |-> i,
                    payload |-> payload]
    /\ requests' = [requests EXCEPT ![i].status = "fulfilled"]
    /\ UNCHANGED <<ctlVars, uiVars>>

\* fetchProductListing.rejected / fetchMoreProducts.rejected.
FetchRejected(i) ==
    /\ Pending(i)
    /\ \E error \in Errors :
         /\ listing' = handleError(listing, error)
         /\ lop' = [kind |-> "rejected", id |-> i, payload |-> NoPayload]
    /\ requests' = [requests EXCEPT ![i].status = "rejected"]
    /\ UNCHANGED <<ctlVars, uiVars>>

\* promoteChildToParent({child}).
PromoteChildToParent(child) ==
    /\ listing' = promoteChildToParent(listing, child)
    /\ lop' = [kind |-> "promoteChildToParent", id |-> child.permanentid,
               payload |-> NoPayload]
    /\ UNCHANGED <<requests, ctlVars, uiVars>>

\* setView: the slice returns to its initial state.
SetView ==
    /\ listing' = getProductListingInitialState
    /\ lop' = [kind |-> "setView", id |-> 0, payload |-> NoPayload]
    /\ UNCHANGED <<requests, ctlVars, uiVars>>

\* setContext: the slice returns to its initial state.
SetContext ==
    /\ listing' = getProductListingInitialState
    /\ lop' = [kind |-> "setContext", id |-> 0, payload |-> NoPayload]
    /\ UNCHANGED <<requests, ctlVars, uiVars>>

ListingInit == ControllerAtRest /\ InterfaceAtRest /\ ListingAtRest

ListingNext ==
    \/ \E kind \in {"fetchProductListing", "fetchMoreProducts"} : FetchPending(kind)
    \/ \E i \in 1..Len(requests) : FetchProductListingFulfilled(i)
    \/ \E i \in 1..Len(requests) : FetchMoreProductsFulfilled(i)
    \/ \E i \in 1..Len(requests) : FetchRejected(i)
    \/ \E child \in ChildProducts : PromoteChildToParent(child)
    \/ SetView
    \/ SetContext

ListingSpec == ListingInit /\ [][ListingNext]_vars

-----------------------------------------------------------------------------
\* Helpers of the properties.

\* The kinds of event in a trace, at their positions.
Positions(tr, kind) == {i \in 1..Len(tr) : tr[i].ev = kind}

\* The subscriptions whose listener a trace invokes, in order of invocation.
ListenerOrder(tr) ==
    LET sel == SelectSeq(tr, LAMBDA e : e.ev = "listener")
    IN [i \in 1..Len(sel) |-> sel[i].sub]

\* A derived state JSON.stringify takes two different values of to two
\* different results or throws on: no property holding undefined.
Faithful(d) == d.aux # "undefined"

Serializable(d) == Stringify(d) # TypeError

-----------------------------------------------------------------------------
\* C1: with a single subscription registered, every Store update that leaves
\* the derived state different from the one at the listener's previous
\* invocation (or at subscribe time) invokes the listener exactly once.
\* (Stated for states without undefined properties only.)
C1_ChangeInvokesOnce ==
    [][\A s \in 1..Len(subs) :
          (/\ op'.kind = "update"
           /\ cbs = <<s>>
           /\ Faithful(subs[s].seen) /\ Faithful(State(store'))
           /\ State(store') # subs[s].seen)
          => Invoked(trace', s) = 1]_vars

\* C2: with two or more listeners registered, a Store update that changes the
\* serialized derived state, in which no listener throws, invokes every
\* listener, in registration order.
C2_AllListenersInOrder ==
    [][(/\ op'.kind = "update"
        /\ Len(cbs) >= 2
        /\ Serializable(State(store)) /\ Serializable(State(store'))
        /\ Stringify(State(store')) # Stringify(State(store))
        /\ Positions(trace', "throw:listener") = {})
       => ListenerOrder(trace') = cbs]_vars

\* C3: a subscribe call made while the derived state cannot be serialized
\* (whose listener does not throw) throws nothing, invokes the listener once
\* and returns an unsubscribe function of a registered callback.
C3_SubscribeNeverThrows ==
    (/\ op.kind = "subscribe"
     /\ ~Serializable(State(store))
     /\ Positions(trace, "throw:listener") = {})
    => /\ Positions(trace, "throw:stringify") = {}
       /\ Invoked(trace, op.sub) = 1
       /\ subs[op.sub].status = "active"
       /\ op.sub \in Registered

\* C4: a subscribe call invokes its listener exactly once, first of all, and
\* so before the callback is registered with the Store.
C4_InitialInvocation ==
    op.kind = "subscribe"
    => /\ Invoked(trace, op.sub) = 1
       /\ trace[1] = Ev("listener", op.sub)
       /\ \A i \in Positions(trace, "register") :
            \A j \in Positions(trace, "listener") : j < i
       /\ op.arg = NoState => \A s \in 1..Len(subs) : s # op.sub => Invoked(trace, s) = 0

\* A subscribe call that returned, its callback registered.
C4_Witness ==
    /\ op.kind = "subscribe"
    /\ subs[op.sub].status = "active"
    /\ Count(trace, "register", op.sub) = 1
    /\ Len(cbs) = 2

\* C5 as claimed: a Store update that leaves the derived state identical to
\* the one at a listener's previous invocation (or at subscribe time) does
\* not invoke that listener.
C5_IdenticalNeverInvokes ==
    [][\A s \in 1..Len(subs) :
          (/\ op'.kind = "update"
           /\ s \in Registered
           /\ State(store') = subs[s].seen)
          => Invoked(trace', s) = 0]_vars

\* C5 as amended: a Store update invokes a listener only if the derived
\* state cannot be serialized or its serialization differs from the stored
\* snapshot; one that serializes to the stored snapshot invokes no listener.
C5_SnapshotSuppression ==
    [][op'.kind = "update"
       => \A s \in 1..Len(subs) :
            Invoked(trace', s) > 0
            => \/ ~Serializable(State(store'))
               \/ Stringify(State(store')) # prevState]_vars

\* An update on which the first callback ran, serialized the state and did
\* not invoke its listener.
C5_Witness ==
    /\ op.kind = "update"
    /\ cbs # <<>>
    /\ Count(trace, "setPrev", cbs[1]) = 1
    /\ Invoked(trace, cbs[1]) = 0

\* C6: no call made after a subscription's unsubscribe function was called
\* invokes its listener.
C6_PostUnsubscribeSilence ==
    \A s \in 1..Len(subs) :
        subs[s].status = "unsubscribed" => Invoked(trace, s) = 0

\* An update made after an unsubscribe that invoked another listener.
C6_Witness ==
    /\ op.kind = "update"
    /\ \E s \in 1..Len(subs) : subs[s].status = "unsubscribed"
    /\ \E s \in 1..Len(subs) : Invoked(trace, s) = 1

\* C7: a further call of an unsubscribe function changes nothing: not the
\* Store's callbacks, not the other subscriptions, and nothing is thrown.
C7_UnsubscribeIdempotent ==
    [][(/\ op'.kind = "unsubscribe"
        /\ subs[op'.sub].status = "unsubscribed")
       => /\ cbs' = cbs
          /\ isSubscribed' = isSubscribed
          /\ store' = store
          /\ prevState' = prevState
          /\ subs' = subs
          /\ trace' = <<>>]_vars

\* A call of an unsubscribe function that removed nothing, another
\* subscription being registered.
C7_Witness ==
    /\ op.kind = "unsubscribe"
    /\ subs[op.sub].status = "unsubscribed"
    /\ trace = <<>>
    /\ cbs # <<>>

\* The callback of s ran in a trace.
Ran(tr, s) == Count(tr, "warn", s) + Count(tr, "setPrev", s) > 0

\* C8: on a Store update to a state that cannot be serialized, no exception
\* of the serialization escapes, and every callback that runs logs a warning
\* and invokes its listener once; the first callback runs, and all of them
\* do when no listener throws.
C8_FailOpen ==
    (op.kind = "update" /\ ~Serializable(State(store)))
    => /\ Positions(trace, "throw:stringify") = {}
       /\ \A s \in Registered :
            Ran(trace, s) => /\ Count(trace, "warn", s) = 1
                             /\ Count(trace, "setPrev", s) = 0
                             /\ Invoked(trace, s) = 1
       /\ cbs # <<>> => Ran(trace, cbs[1])
       /\ Positions(trace, "throw:listener") = {}
            => \A s \in Registered : Ran(trace, s)

\* An update to a state that cannot be serialized, with two listeners
\* invoked.
C8_Witness ==
    /\ op.kind = "update"
    /\ ~Serializable(State(store))
    /\ Len(cbs) = 2
    /\ \A s \in Registered : Invoked(trace, s) = 1 /\ Count(trace, "warn", s) = 1

\* C9: the Store holds exactly one callback for every subscription created
\* and not yet unsubscribed, and no other.
C9_CallbackCount ==
    /\ \A s \in 1..Len(subs) :
         Cardinality({i \in 1..Len(cbs) : cbs[i] = s})
           = IF subs[s].status = "active" THEN 1 ELSE 0
    /\ Len(cbs) = Cardinality({s \in 1..Len(subs) : subs[s].status = "active"})
    /\ Registered \subseteq 1..Len(subs)

\* Two subscriptions created and both unsubscribed: the Store holds nothing.
C9_Witness ==
    /\ Len(subs) = 2
    /\ \A s \in 1..Len(subs) : subs[s].status = "unsubscribed"
    /\ cbs = <<>>

\* C10: subscribe, unsubscribe and a read of state leave the Store's state
\* as it was, and after an update with its notification pass (made by
\* application code or by a listener within subscribe) the Store holds
\* exactly the state the update committed.
C10_StoreFrame ==
    [][/\ (op'.kind \in {"subscribe", "unsubscribe", "read"} /\ op'.arg = NoState)
            => store' = store
       /\ op'.arg # NoState => State(store') = op'.arg]_vars

\* An update to a state with an undefined property, a callback having run.
C10_Witness ==
    /\ op.kind = "update"
    /\ store.aux = "undefined"
    /\ trace # <<>>

\* Event e is directly followed by event f somewhere in a trace.
Follows(tr, e, f) == \E i \in 1..(Len(tr) - 1) : tr[i] = e /\ tr[i + 1] = f

\* C11: what a listener throws when its callback invokes it on a Store
\* update leaves the callback, right after the invocation: the Controller
\* catches nothing.
C11_ListenerThrowPropagates ==
    (op.kind = "update" /\ op.sub # 0)
    => Follows(trace, Ev("listener", op.sub), Ev("throw:listener", op.sub))

\* The first of two listeners threw and the Store ended its pass there.
C11_Witness ==
    /\ op.kind = "update"
    /\ Len(cbs) = 2
    /\ op.sub = cbs[1]
    /\ Count(trace, "throw:listener", cbs[1]) = 1
    /\ ~Ran(trace, cbs[2])

\* C12: after a subscription was unsubscribed, a further subscribe call
\* (whose listener returns) invokes its listener once, returns, and holds
\* the serialized derived state as its baseline; and alone registered, its
\* listener is invoked once on every later update that leaves the derived
\* state different from the one it last saw.  (Stated for states without
\* undefined properties only.)
C12_ResubscribeWorks ==
    [][/\ (/\ op'.kind = "subscribe"
           /\ op'.arg = NoState
           /\ Positions(trace', "throw:listener") = {}
           /\ \E u \in 1..Len(subs) : subs[u].status = "unsubscribed")
          => /\ Invoked(trace', op'.sub) = 1
             /\ subs'[op'.sub].status = "active"
             /\ prevState' = Stringify(State(store'))
       /\ \A s \in 1..Len(subs) :
            (/\ op'.kind = "update"
             /\ cbs = <<s>>
             /\ \E u \in 1..(s - 1) : subs[u].status = "unsubscribed"
             /\ Faithful(subs[s].seen) /\ Faithful(State(store'))
             /\ State(store') # subs[s].seen)
            => Invoked(trace', s) = 1]_vars

\* C14 as claimed: when the single registered listener throws on an update
\* to a state that can be serialized, the stored snapshot still holds its
\* old value, not the serialization of the new state.
C14_SnapshotAfterListener ==
    (/\ op.kind = "update"
     /\ op.sub # 0
     /\ cbs = <<op.sub>>
     /\ Serializable(State(store)))
    => prevState # Stringify(State(store))

\* C14 as amended: on a Store update the callback assigns the snapshot (or
\* logs its warning) and only then invokes its listener; once a callback ran
\* on a state that can be serialized the snapshot holds the new value, also
\* when a listener threw, and the next update to the same derived state does
\* not invoke the listener that threw.
C14_SnapshotBeforeListener ==
    [][/\ op'.kind = "update"
          => /\ \A s \in 1..Len(subs) :
                  Invoked(trace', s) > 0
                  => \/ Follows(trace', Ev("setPrev", s), Ev("listener", s))
                     \/ Follows(trace', Ev("warn", s), Ev("listener", s))
             /\ (trace' # <<>> /\ Serializable(State(store')))
                  => prevState' = Stringify(State(store'))
       /\ (/\ op.kind = "update" /\ op.sub # 0
           /\ Serializable(State(store))
           /\ op'.kind = "update"
           /\ State(store') = State(store))
          => Invoked(trace', op.sub) = 0]_vars

\* A listener threw on an update to a state that can be serialized.
C14_Witness ==
    /\ op.kind = "update"
    /\ op.sub # 0
    /\ cbs = <<op.sub>>
    /\ Serializable(State(store))
    /\ prevState = Stringify(State(store))

\* C15: when the listener's first invocation dispatches a Store update and
\* subscribe returns, the listener was invoked once in the call, the
\* baseline is the serialization of the state after that update, and a next
\* update to the same derived state does not invoke the listener.
C15_BaselineAfterFirstInvocation ==
    [][/\ (/\ op'.kind = "subscribe"
           /\ op'.arg # NoState
           /\ subs'[op'.sub].status = "active")
          => /\ Invoked(trace', op'.sub) = 1
             /\ State(store') = op'.arg
             /\ prevState' = Stringify(op'.arg)
       /\ (/\ op.kind = "subscribe"
           /\ op.arg # NoState
           /\ subs[op.sub].status = "active"
           /\ op'.kind = "update"
           /\ State(store') = State(store))
          => Invoked(trace', op.sub) = 0]_vars

\* A subscribe call whose listener dispatched an update that another
\* listener was notified of.
C15_Witness ==
    /\ op.kind = "subscribe"
    /\ op.arg # NoState
    /\ subs[op.sub].status = "active"
    /\ \E t \in 1..Len(subs) : t # op.sub /\ Invoked(trace, t) = 1

\* Some initialize / initializeWithEngine promise has fulfilled.
InitializeFulfilled == \E i \in 1..Len(inits) : inits[i] = "fulfilled"

\* C13: the engine is asked to execute the first search, or handed the
\* updateQuery dispatch, only when the engine exists and an initialize
\* promise has fulfilled; `initialized` is true only with the search-status
\* subscription, the URL manager and the context set up; an earlier
\* executeFirstSearch call asks nothing of the engine and leaves the stored
\* standalone-search-box data.
C13_FirstSearchAfterInitialization ==
    [][/\ (iface'.searches # iface.searches \/ iface'.queries # iface.queries)
          => (iface.engine /\ InitializeFulfilled)
       /\ iface'.initialized
          => (iface'.searchStatus /\ iface'.urlManager /\ iface'.context)
       /\ (iop'.kind = "executeFirstSearch" /\ ~(iface.engine /\ InitializeFulfilled))
          => /\ iface' = iface
             /\ iop'.outcome \in {"noEngine", "notInitialized"}]_vars

\* executeFirstSearch was called while the initialize promise was pending,
\* the engine already created.
C13_Witness ==
    /\ iop = [kind |-> "executeFirstSearch", outcome |-> "notInitialized"]
    /\ iface.engine
    /\ \E i \in 1..Len(inits) : inits[i] = "awaiting"
    /\ ~InitializeFulfilled

\* The last action was a fulfilled fetch that carried a payload.
Fulfilled(a) ==
    /\ a.kind \in {"fetchProductListing.fulfilled", "fetchMoreProducts.fulfilled"}
    /\ a.payload.present

\* C16: after fetchProductListing.fulfilled or fetchMoreProducts.fulfilled
\* with pagination (page, perPage), the response's product at index i (from
\* 0) is stored, in the response's order, with position
\* page * perPage + i + 1: by the first as the whole list, by the second
\* after the products already stored.
C16_PositionFromPagination ==
    Fulfilled(lop)
    => LET response == lop.payload.response
           base == Len(listing.products) - Len(response.products)
       IN /\ base >= 0
          /\ lop.kind = "fetchProductListing.fulfilled" => base = 0
          /\ \A j \in 1..Len(response.products) :
               LET stored == listing.products[base + j] IN
               /\ stored.position
                    = response.pagination.page * response.pagination.perPage
                      + (j - 1) + 1
               /\ stored.permanentid = response.products[j].permanentid
               /\ stored.totalNumberOfChildren
                    = response.products[j].totalNumberOfChildren

\* fetchMoreProducts.fulfilled stored the two products of page 1, of two
\* products a page, after one stored before.
C16_Witness ==
    /\ lop.kind = "fetchMoreProducts.fulfilled"
    /\ lop.payload.present
    /\ Len(lop.payload.response.products) = 2
    /\ lop.payload.response.pagination = [page |-> 1, perPage |-> 2]
    /\ Len(listing.products) = 3
    /\ listing.products[3].position = 4

\* C17: promoteChildToParent replaces the first product that has a child
\* with the given permanentid, at its index, by that child's fields with the
\* old parent's children, totalNumberOfChildren and position; the length of
\* the list, every other product and the rest of the slice are unchanged;
\* with no such product the slice is unchanged.
C17_PromoteReplacesInPlace ==
    [][lop'.kind = "promoteChildToParent"
       => LET found == {i \in 1..Len(listing.products) :
                           ChildMatches(listing.products[i], lop'.id) # {}}
          IN IF found = {}
             THEN listing' = listing
             ELSE LET k == Min(found)
                      parent == listing.products[k]
                      promoted == listing'.products[k]
                  IN /\ Len(listing'.products) = Len(listing.products)
                     /\ \A i \in 1..Len(listing.products) :
                          i # k => listing'.products[i] = listing.products[i]
                     /\ promoted.permanentid = lop'.id
                     /\ \E j \in ChildMatches(parent, lop'.id) :
                          /\ promoted.ec_name = parent.children[j].ec_name
                          /\ \A h \in ChildMatches(parent, lop'.id) : j <= h
                     /\ promoted.children = parent.children
                     /\ promoted.totalNumberOfChildren = parent.totalNumberOfChildren
                     /\ promoted.position = parent.position
                     /\ [listing' EXCEPT !.products = listing.products] = listing]_vars

\* A child of the second product was promoted, the first product having no
\* child with that id.
C17_Witness ==
    /\ lop.kind = "promoteChildToParent"
    /\ Len(listing.products) >= 2
    /\ ChildMatches(listing.products[1], lop.id) = {}
    /\ listing.products[2].permanentid = lop.id
    /\ listing.products[2].ec_name = "variant"
    /\ listing.products[2].children[1].ec_name = "base"

\* C18: while the request whose id is in state.requestId, the one started
\* last, is neither fulfilled nor rejected, isLoading is true.
C18_LoadingWhileLatestPending ==
    (listing.requestId # 0 /\ requests[listing.requestId].status = "pending")
    => listing.isLoading

\* C19: fetchMoreProducts.fulfilled with a payload keeps the stored products
\* as a prefix of the new list and appends the response's; without payload
\* it leaves the slice unchanged; the rejected actions leave products, facets
\* and responseId unchanged and set isLoading to false.
C19_AppendAndRejectFrame ==
    [][/\ (lop'.kind = "fetchMoreProducts.fulfilled" /\ lop'.payload.present)
          => /\ Len(listing'.products)
                  = Len(listing.products) + Len(lop'.payload.response.products)
             /\ SubSeq(listing'.products, 1, Len(listing.products))
                  = listing.products
       /\ (lop'.kind = "fetchMoreProducts.fulfilled" /\ ~lop'.payload.present)
          => listing' = listing
       /\ lop'.kind = "rejected"
          => /\ listing'.products = listing.products
             /\ listing'.facets = listing.facets
             /\ listing'.responseId = listing.responseId
             /\ ~listing'.isLoading]_vars

\* fetchMoreProducts.fulfilled appended a product after a stored product
\* that has children.
C19_Witness ==
    /\ lop.kind = "fetchMoreProducts.fulfilled"
    /\ lop.payload.present
    /\ Len(lop.payload.response.products) = 1
    /\ Len(listing.products) = 2
    /\ Len(listing.products[1].children) = 2
    /\ listing.responseId = lop.id

\* The product has a child that carries the product's own permanentid.
HasSelfAsChild(product) == ChildMatches(product, product.permanentid) # {}

\* C20: every stored product with children has a child with the product's
\* own permanentid, and preprocessProduct applied to a stored product, or
\* twice to a product of the last response, leaves the children it finds.
C20_ParentAmongChildren ==
    /\ \A i \in 1..Len(listing.products) :
         LET product == listing.products[i] IN
         /\ Len(product.children) > 0 => HasSelfAsChild(product)
         /\ preprocessProduct(product, product.position).children
              = product.children
    /\ \A j \in 1..Len(lop.payload.response.products) :
         LET once == preprocessProduct(lop.payload.response.products[j], j) IN
         preprocessProduct(once, j) = once

\* A promoted child stands as parent of children to which preprocessProduct
\* had added the old parent, beside a product that came with itself among
\* its children.
C20_Witness ==
    /\ lop.kind = "promoteChildToParent"
    /\ Len(listing.products) = 2
    /\ \E i, k \in 1..2 :
         /\ listing.products[i].ec_name = "variant"
         /\ Len(listing.products[i].children) = 2
         /\ listing.products[i].children[1].ec_name = "base"
         /\ listing.products[k].ec_name = "base"
         /\ Len(listing.products[k].children) = 1

\* C21: an update on which the serialization fails leaves the stored
\* snapshot as it was; and on the update that follows a failure in a
\* listener's callback and brings a state that can be serialized (no
\* listener throwing), that listener is invoked if and only if the new
\* serialization differs from the snapshot kept over the failure.
C21_SnapshotKeptOverFailure ==
    [][/\ (op'.kind = "update" /\ ~Serializable(State(store')))
          => prevState' = prevState
       /\ \A s \in 1..Len(subs) :
            (/\ op.kind = "update"
             /\ ~Serializable(State(store))
             /\ Count(trace, "warn", s) = 1
             /\ op'.kind = "update"
             /\ Serializable(State(store'))
             /\ s \in Registered
             /\ Positions(trace', "throw:listener") = {})
            => (Invoked(trace', s) = 1
                <=> Stringify(State(store')) # prevState)]_vars

====
